---- MODULE Spec2Model ----
(***************************************************************************)
(* Events feed of the Trailarr frontend: EventsComponent (the all-events   *)
(* page), MediaEventsComponent (the per-media page) and EventsService.     *)
(*                                                                         *)
(* JavaScript values are tagged tuples: <<"undefined">>, <<"null">>,       *)
(* <<"num", n>>, <<"str", s>>.  Strings are TLA+ strings; SubSeq, Len and  *)
(* \o act on them character by character.                                  *)
(*                                                                         *)
(* A list of events is kept run-length encoded: a sequence of runs         *)
(* [ev |-> e, n |-> k] stands for k consecutive events that agree with e   *)
(* on every field the code reads (id and created_at are never read by the  *)
(* logic modelled here).                                                   *)
(***************************************************************************)
EXTENDS Integers, Sequences, FiniteSets, TLC

VARIABLES
    db,                  \* the backend's event log, newest first (stable)
    searchForm,          \* FormControl value of the search box
    searchQuery,         \* signal<string>
    selectedEventType,   \* signal<EventType | 'all'>
    selectedEventSource, \* signal<EventSource | 'all'>
    limit,               \* signal(500)
    displayCount,        \* signal(50)
    allEventsValue,      \* allEvents.value(): the resource's current value
    inflight,            \* requests of the resource that are outstanding
    effectDirty,         \* resetDisplayCount has a changed dependency
    initialized,         \* ngOnInit has run
    last,                \* the handler that ran last, with its inputs
    filtersChanged,      \* a filter has changed value since the last render
    svcCall,             \* EventsService: the call being made
    svcOut,              \* EventsService: the params handed to HttpClient.get
    descEvent,           \* description mapping: the event being described
    descOut              \* description mapping: what was returned

feedVars == <<db, searchForm, searchQuery, selectedEventType, selectedEventSource,
              limit, displayCount, allEventsValue, inflight, effectDirty,
              initialized, last, filtersChanged>>
svcVars == <<svcCall, svcOut>>
descVars == <<descEvent, descOut>>
vars == <<feedVars, svcVars, descVars>>

----------------------------------------------------------------------------
(* Bounds of the model *)

\* how many times loadMore may raise the limit, and the displayCount
MaxLimitSteps == 1
MaxDisplaySteps == 15

----------------------------------------------------------------------------
(* JavaScript values *)

Undefined == <<"undefined">>
Null == <<"null">>
Num(n) == <<"num", n>>
Str(s) == <<"str", s>>

IsStr(v) == v[1] = "str"

\* ToBoolean: undefined, null, '' and 0 are falsy
Truthy(v) ==
    CASE v[1] = "undefined" -> FALSE
      [] v[1] = "null" -> FALSE
      [] v[1] = "str" -> v[2] # ""
      [] v[1] = "num" -> v[2] # 0
      [] OTHER -> TRUE

\* a || b
Or(a, b) == IF Truthy(a) THEN a ELSE b

\* `${v}`
Template(v) ==
    CASE v[1] = "undefined" -> "undefined"
      [] v[1] = "null" -> "null"
      [] v[1] = "str" -> v[2]
      [] v[1] = "num" -> ToString(v[2])

----------------------------------------------------------------------------
(* String.prototype functions *)

UpperChars == "ABCDEFGHIJKLMNOPQRSTUVWXYZ"
LowerChars == "abcdefghijklmnopqrstuvwxyz"
UpperSet == {SubSeq(UpperChars, i, i) : i \in 1..26}

LowerChar(c) ==
    IF c \in UpperSet
    THEN LET i == CHOOSE j \in 1..26 : SubSeq(UpperChars, j, j) = c
         IN SubSeq(LowerChars, i, i)
    ELSE c

RECURSIVE toLowerCase(_)
toLowerCase(s) ==
    IF Len(s) = 0 THEN ""
    ELSE LowerChar(SubSeq(s, 1, 1)) \o toLowerCase(SubSeq(s, 2, Len(s)))

RECURSIVE replaceAll(_, _, _)
replaceAll(s, from, to) ==
    IF Len(s) = 0 THEN ""
    ELSE (IF SubSeq(s, 1, 1) = from THEN to ELSE SubSeq(s, 1, 1))
            \o replaceAll(SubSeq(s, 2, Len(s)), from, to)

RECURSIVE trimStart(_)
trimStart(s) ==
    IF Len(s) > 0 /\ SubSeq(s, 1, 1) = " " THEN trimStart(SubSeq(s, 2, Len(s))) ELSE s

RECURSIVE trimEnd(_)
trimEnd(s) ==
    IF Len(s) > 0 /\ SubSeq(s, Len(s), Len(s)) = " "
    THEN trimEnd(SubSeq(s, 1, Len(s) - 1)) ELSE s

trim(s) == trimEnd(trimStart(s))

includes(s, q) ==
    \/ Len(q) = 0
    \/ \E i \in 1..(Len(s) - Len(q) + 1) : SubSeq(s, i, i + Len(q) - 1) = q

----------------------------------------------------------------------------
(* models/event.ts *)

EventType == {"media_added", "monitor_changed", "youtube_id_changed",
              "trailer_detected", "trailer_downloaded", "trailer_deleted",
              "download_skipped"}

EventSource == {"user", "system"}

\* EventRead, without id and created_at
EventRead(mediaId, type, source, detail, old, new) ==
    [media_id |-> mediaId, event_type |-> type, source |-> source,
     source_detail |-> detail, old_value |-> old, new_value |-> new]

----------------------------------------------------------------------------
(* Run-length encoded lists *)

RECURSIVE RLen(_)
RLen(runs) == IF runs = <<>> THEN 0 ELSE Head(runs).n + RLen(Tail(runs))

\* Array.prototype.slice(0, k)
RECURSIVE RTake(_, _)
RTake(runs, k) ==
    IF runs = <<>> \/ k <= 0 THEN <<>>
    ELSE IF Head(runs).n >= k THEN <<[ev |-> Head(runs).ev, n |-> k]>>
    ELSE <<Head(runs)>> \o RTake(Tail(runs), k - Head(runs).n)

\* the events of a list, as a set
REvents(runs) == {runs[i].ev : i \in DOMAIN runs}

\* Array.prototype.filter: the runs of the events in `kept`, the events that
\* satisfy the predicate
RFilter(runs, kept) == SelectSeq(runs, LAMBDA r : r.ev \in kept)

Min(a, b) == IF a <= b THEN a ELSE b

----------------------------------------------------------------------------
(* The backend and the media service, as the feed sees them *)

EvDownloaded == EventRead(1, "trailer_downloaded", "system", "TrailerDownload", Null, Str("abc123"))
EvAdded == EventRead(7, "media_added", "system", "ConnectionRefresh", Null, Str("Radarr"))
EvMonitor == EventRead(1, "monitor_changed", "user", "API", Str("true"), Str("false"))
EvSkipped == EventRead(2, "download_skipped", "system", "DownloadTrailers", Null, Str("Already downloaded"))

DbEmpty == <<>>
DbSmall == <<[ev |-> EvMonitor, n |-> 40], [ev |-> EvAdded, n |-> 20]>>
DbBig == <<[ev |-> EvDownloaded, n |-> 50], [ev |-> EvAdded, n |-> 450],
           [ev |-> EvSkipped, n |-> 100], [ev |-> EvDownloaded, n |-> 600]>>
Databases == {DbEmpty, DbSmall, DbBig}

\* mediaService.combinedMedia(): media 7 is not (yet) known to the client
CombinedMedia == {[id |-> 1, title |-> "Inception"], [id |-> 2, title |-> "Dune"]}

\* GET events/?limit=&event_type=&event_source=
Server(database, params) ==
    LET wanted(e) ==
            /\ ("event_type" \in DOMAIN params => e.event_type = params["event_type"][2])
            /\ ("event_source" \in DOMAIN params => e.source = params["event_source"][2])
    IN RTake(RFilter(database, {e \in REvents(database) : wanted(e)}), params["limit"][2])

----------------------------------------------------------------------------
(* EventsComponent *)

InitialDisplayCount == 50
DisplayCountStep == 30
InitialLimit == 500
LimitStep == 500

\* faulty variant: the 'all' sentinel is sent as the event type
RequestParamsWithSentinel(l, type, source) ==
    ("limit" :> Num(l)) @@ ("event_type" :> Str(type))
        @@ (IF source # "all" THEN ("event_source" :> Str(source)) ELSE <<>>)

\* the params of the httpResource request
RequestParams(l, type, source) ==
    ("limit" :> Num(l))
        @@ (IF type # "all" THEN ("event_type" :> Str(type)) ELSE <<>>)
        @@ (IF source # "all" THEN ("event_source" :> Str(source)) ELSE <<>>)

\* Map.prototype.get on mediaTitlesMap()
mediaTitlesMap(mediaId) ==
    IF \E m \in CombinedMedia : m.id = mediaId
    THEN Str((CHOOSE m \in CombinedMedia : m.id = mediaId).title)
    ELSE Undefined

getMediaTitle(mediaId) ==
    Or(mediaTitlesMap(mediaId), Str("Media #" \o ToString(mediaId)))[2]

\* faulty variant: new_value is not searched
EventMatchesWithoutNewValue(event, query) ==
    \/ includes(toLowerCase(Or(Str(event.source_detail), Str(""))[2]), query)
    \/ includes(toLowerCase(Or(event.old_value, Str(""))[2]), query)
    \/ includes(replaceAll(toLowerCase(event.event_type), "_", " "), query)
    \/ includes(toLowerCase(Or(mediaTitlesMap(event.media_id), Str(""))[2]), query)

\* the predicate handed to events.filter
EventMatches(event, query) ==
    \/ includes(toLowerCase(Or(Str(event.source_detail), Str(""))[2]), query)
    \/ includes(toLowerCase(Or(event.old_value, Str(""))[2]), query)
    \/ includes(toLowerCase(Or(event.new_value, Str(""))[2]), query)
    \/ includes(replaceAll(toLowerCase(event.event_type), "_", " "), query)
    \/ includes(toLowerCase(Or(mediaTitlesMap(event.media_id), Str(""))[2]), query)

\* filteredEvents, before the slice
SearchedEvents(events, rawQuery) ==
    LET query == toLowerCase(rawQuery)
        matches(e) == EventMatches(e, query)
    IN IF Truthy(Str(query)) /\ Len(trim(query)) > 0
       THEN RFilter(events, {e \in REvents(events) : matches(e)})
       ELSE events

\* faulty variant: the slice is missing
filteredEventsUnsliced(events, rawQuery, count) == SearchedEvents(events, rawQuery)

filteredEvents(events, rawQuery, count) ==
    RTake(SearchedEvents(events, rawQuery), count)

\* faulty variant: the effect does not read searchQuery
resetDisplayCountDepsWithoutQuery(query, type, source) == <<type, source>>

\* the signals the resetDisplayCount effect reads
resetDisplayCountDeps(query, type, source) == <<query, type, source>>

\* faulty variant: the request in flight is not aborted
StartRequestWithoutAbort(outstanding, params) == Append(outstanding, params)

\* httpResource: a changed request aborts the request in flight and starts the new one
StartRequest(outstanding, params) == <<params>>

\* faulty variant: the type is not checked against EventType
SeedFromParamsUnchecked(params, type, form, query) ==
    LET eventType == params.type
        mediaId == params.media_id
    IN [type |-> IF Truthy(eventType) THEN eventType[2] ELSE type,
        form |-> IF Truthy(mediaId) THEN mediaId ELSE form,
        query |-> IF Truthy(mediaId) THEN mediaId[2] ELSE query]

\* the queryParams subscriber of ngOnInit: the type filter and the search it leaves
SeedFromParams(params, type, form, query) ==
    LET eventType == params.type
        mediaId == params.media_id
        knownType == Truthy(eventType) /\ IsStr(eventType) /\ eventType[2] \in EventType
    IN [type |-> IF knownType THEN eventType[2] ELSE type,
        form |-> IF Truthy(mediaId) THEN mediaId ELSE form,
        query |-> IF Truthy(mediaId) THEN mediaId[2] ELSE query]

\* faulty variant: the limit is raised only when the raw count exceeds it
loadMoreResultStrict(currentCount, events, lim) ==
    IF currentCount >= RLen(events)
    THEN [limit |-> IF RLen(events) > lim THEN lim + LimitStep ELSE lim,
          displayCount |-> currentCount]
    ELSE [limit |-> lim, displayCount |-> currentCount + DisplayCountStep]

\* faulty variant: the limit is raised without looking at the raw count
loadMoreResultUnchecked(currentCount, events, lim) ==
    IF currentCount >= RLen(events)
    THEN [limit |-> lim + LimitStep, displayCount |-> currentCount]
    ELSE [limit |-> lim, displayCount |-> currentCount + DisplayCountStep]

\* loadMore: the limit and the displayCount it leaves
loadMoreResult(currentCount, events, lim) ==
    IF currentCount >= RLen(events)
    THEN [limit |-> IF RLen(events) >= lim THEN lim + LimitStep ELSE lim,
          displayCount |-> currentCount]
    ELSE [limit |-> lim, displayCount |-> currentCount + DisplayCountStep]

----------------------------------------------------------------------------
(* Inputs *)

Queries == {"  ", "Trailer", " radarr", "media #7"}
FormValues == {Null} \cup {Str(q) : q \in Queries}
TypeChoices == {"all", "media_added", "trailer_downloaded"}
SourceChoices == {"all", "user", "system"}
RouteTypes == {Undefined, Str(""), Str("bogus"), Str("trailer_downloaded")}
RouteMediaIds == {Undefined, Str(""), Str("7"), Str("abc")}

Op(name, arg) == [op |-> name, arg |-> arg]

----------------------------------------------------------------------------
(* The feed: state after construction, and the handlers *)

FeedInit ==
    /\ db \in Databases
    /\ searchForm = Null
    /\ searchQuery = ""
    /\ selectedEventType = "all"
    /\ selectedEventSource = "all"
    /\ limit = InitialLimit
    /\ displayCount = InitialDisplayCount
    /\ allEventsValue = <<>>
    /\ inflight = StartRequest(<<>>, RequestParams(InitialLimit, "all", "all"))
    /\ effectDirty = TRUE
    /\ initialized = FALSE
    /\ last = Op("constructor", <<>>)
    /\ filtersChanged = FALSE

\* signal.set on the filters and the limit, and what depends on them: the effect
\* is marked dirty, the resource drops its value and requests the new params
SetSignals(query, type, source, lim) ==
    /\ searchQuery' = query
    /\ selectedEventType' = type
    /\ selectedEventSource' = source
    /\ limit' = lim
    /\ effectDirty' = (effectDirty \/ resetDisplayCountDeps(query, type, source)
                        # resetDisplayCountDeps(searchQuery, selectedEventType, selectedEventSource))
    /\ filtersChanged' = (filtersChanged \/ <<query, type, source>>
                        # <<searchQuery, selectedEventType, selectedEventSource>>)
    /\ IF RequestParams(lim, type, source)
            # RequestParams(limit, selectedEventType, selectedEventSource)
       THEN /\ allEventsValue' = <<>>
            /\ inflight' = StartRequest(inflight, RequestParams(lim, type, source))
       ELSE UNCHANGED <<allEventsValue, inflight>>

ngOnInit(params) ==
    LET seeded == SeedFromParams(params, selectedEventType, searchForm, searchQuery)
    IN /\ ~initialized
       /\ searchForm' = seeded.form
       /\ SetSignals(seeded.query, seeded.type, selectedEventSource, limit)
       /\ initialized' = TRUE
       /\ last' = Op("queryParams", <<params.type, params.media_id>>)
       /\ UNCHANGED <<db, displayCount, svcVars, descVars>>

searchValueChanges(value) ==
    /\ initialized
    /\ value # searchForm
    /\ searchForm' = value
    /\ SetSignals(Or(value, Str(""))[2], selectedEventType, selectedEventSource, limit)
    /\ last' = Op("valueChanges", <<>>)
    /\ UNCHANGED <<db, displayCount, initialized, svcVars, descVars>>

selectEventType(type) ==
    /\ initialized
    /\ SetSignals(searchQuery, type, selectedEventSource, limit)
    /\ last' = Op("selectEventType", <<>>)
    /\ UNCHANGED <<db, searchForm, displayCount, initialized, svcVars, descVars>>

selectEventSource(source) ==
    /\ initialized
    /\ SetSignals(searchQuery, selectedEventType, source, limit)
    /\ last' = Op("selectEventSource", <<>>)
    /\ UNCHANGED <<db, searchForm, displayCount, initialized, svcVars, descVars>>

loadMore ==
    LET result == loadMoreResult(displayCount, allEventsValue, limit)
    IN /\ initialized
       /\ result.limit <= InitialLimit + MaxLimitSteps * LimitStep
       /\ result.displayCount <= InitialDisplayCount + MaxDisplaySteps * DisplayCountStep
       /\ displayCount' = result.displayCount
       /\ SetSignals(searchQuery, selectedEventType, selectedEventSource, result.limit)
       /\ last' = Op("loadMore", <<>>)
       /\ UNCHANGED <<db, searchForm, initialized, svcVars, descVars>>

\* the response of an outstanding request arrives
fetchResolve ==
    /\ initialized
    /\ \E i \in DOMAIN inflight :
        /\ allEventsValue' = Server(db, inflight[i])
        /\ inflight' = SubSeq(inflight, 1, i - 1) \o SubSeq(inflight, i + 1, Len(inflight))
    /\ last' = Op("fetchResolve", <<>>)
    /\ UNCHANGED <<db, searchForm, searchQuery, selectedEventType, selectedEventSource,
                   limit, displayCount, effectDirty, initialized, filtersChanged,
                   svcVars, descVars>>

\* an outstanding request fails: the value stays the default
fetchFail ==
    /\ initialized
    /\ \E i \in DOMAIN inflight :
        inflight' = SubSeq(inflight, 1, i - 1) \o SubSeq(inflight, i + 1, Len(inflight))
    /\ last' = Op("fetchFail", <<>>)
    /\ UNCHANGED <<db, searchForm, searchQuery, selectedEventType, selectedEventSource,
                   limit, displayCount, allEventsValue, effectDirty, initialized,
                   filtersChanged, svcVars, descVars>>

\* change detection: the dirty effect runs, then the template renders filteredEvents()
tick ==
    /\ initialized
    /\ displayCount' = IF effectDirty THEN InitialDisplayCount ELSE displayCount
    /\ effectDirty' = FALSE
    /\ filtersChanged' = FALSE
    /\ last' = Op("tick", <<>>)
    /\ UNCHANGED <<db, searchForm, searchQuery, selectedEventType, selectedEventSource,
                   limit, allEventsValue, inflight, initialized, svcVars, descVars>>

SvcIdle == svcCall = <<>> /\ svcOut = <<>>
DescIdle == descEvent = <<>> /\ descOut = <<>>

Next ==
    \/ \E t \in RouteTypes, m \in RouteMediaIds : ngOnInit([type |-> t, media_id |-> m])
    \/ \E v \in FormValues : searchValueChanges(v)
    \/ \E t \in TypeChoices : selectEventType(t)
    \/ \E s \in SourceChoices : selectEventSource(s)
    \/ loadMore
    \/ fetchResolve
    \/ fetchFail
    \/ tick

Init == FeedInit /\ SvcIdle /\ DescIdle
Spec == Init /\ [][Next]_vars

----------------------------------------------------------------------------
(* Claims about the feed *)

Raw == allEventsValue
Matching == SearchedEvents(allEventsValue, searchQuery)

\* C1, as stated: loadMore raises limit by 500 and keeps displayCount when
\* displayCount >= the number of text-filtered events and the raw count equals
\* limit; in every other state it raises displayCount by 30 and keeps limit.
C1_AsStated ==
    [][last'.op = "loadMore" =>
        IF displayCount >= RLen(Matching) /\ RLen(Raw) = limit
        THEN limit' = limit + 500 /\ displayCount' = displayCount
        ELSE displayCount' = displayCount + 30 /\ limit' = limit]_vars

\* C1, amended: loadMore compares displayCount with the RAW fetched count.  When
\* displayCount >= raw count it keeps displayCount and raises limit by 500 if the
\* raw count has reached limit (else changes nothing); in every other state it
\* raises displayCount by 30 and keeps limit.
C1_LoadMore ==
    [][last'.op = "loadMore" =>
        IF displayCount >= RLen(Raw)
        THEN /\ displayCount' = displayCount
             /\ limit' = IF RLen(Raw) >= limit THEN limit + 500 ELSE limit
        ELSE displayCount' = displayCount + 30 /\ limit' = limit]_vars

\* loadMore has just raised the limit from 500 to 1000
C1_Witness ==
    /\ last.op = "loadMore"
    /\ limit = 1000
    /\ displayCount = 500
    /\ inflight # <<>>

\* C2, as stated: when the list is rendered, displayCount never exceeds the
\* number of events that pass the text filter.
C2_AsStated == last.op = "tick" => displayCount <= RLen(Matching)

\* C2, amended: the number of rows rendered never exceeds displayCount: it is the
\* smaller of displayCount and the number of events that pass the text filter
\* (displayCount itself may exceed that number).
C2_RenderedRows ==
    LET rows == RLen(filteredEvents(allEventsValue, searchQuery, displayCount))
    IN /\ rows <= displayCount
       /\ rows = Min(displayCount, RLen(Matching))

\* a render in which the slice cuts the list, after loadMore calls
C2_Witness ==
    /\ last.op = "tick"
    /\ displayCount > InitialDisplayCount
    /\ RLen(Matching) > displayCount

\* C3: a render that follows a change of the query, the type or the source
\* shows displayCount reset to 50, whatever it was before.
C3_ResetOnFilterChange ==
    [][last'.op = "tick" /\ filtersChanged => displayCount' = 50]_vars

\* a filter has changed after loadMore calls and the list is not rendered yet
C3_Witness ==
    /\ filtersChanged
    /\ displayCount > InitialDisplayCount
    /\ last.op = "valueChanges"

\* the strings of an event that the search looks at, the title as resolved
SearchableFields(e, title) ==
    {e.source_detail, Or(e.old_value, Str(""))[2], Or(e.new_value, Str(""))[2],
     replaceAll(e.event_type, "_", " "), title}

\* C4, as stated: the displayed events are fetched events, and an event is
\* retained exactly when the lower-cased, trimmed query is a substring of a
\* searchable field, the title being the resolved one (the placeholder when the
\* id is not in the title map); an empty or whitespace-only query retains all.
C4_AsStated ==
    /\ REvents(filteredEvents(allEventsValue, searchQuery, displayCount)) \subseteq REvents(Raw)
    /\ \A e \in REvents(Raw) :
        e \in REvents(Matching) <=>
            \/ trim(searchQuery) = ""
            \/ \E f \in SearchableFields(e, getMediaTitle(e.media_id)) :
                    includes(toLowerCase(f), trim(toLowerCase(searchQuery)))

\* C4, amended: as stated, but the lower-cased query is matched as typed, not
\* trimmed, and the title searched is the one in the title map, the empty
\* string when the id is not in it (the placeholder title is not searched).
C4_Retained ==
    /\ REvents(filteredEvents(allEventsValue, searchQuery, displayCount)) \subseteq REvents(Raw)
    /\ \A e \in REvents(Raw) :
        e \in REvents(Matching) <=>
            \/ trim(searchQuery) = ""
            \/ \E f \in SearchableFields(e, Or(mediaTitlesMap(e.media_id), Str(""))[2]) :
                    includes(toLowerCase(f), toLowerCase(searchQuery))

\* a query with a leading blank drops an event that its trimmed form matches,
\* and keeps none of the fetched events
C4_Witness ==
    /\ searchQuery = " radarr"
    /\ EvAdded \in REvents(Raw)
    /\ Matching = <<>>

\* C5: the request parameters hold limit always, event_type exactly when the
\* selected type is not 'all' (then equal to it), event_source exactly when the
\* selected source is not 'all' (then equal to it), and no value 'all' or undefined;
\* the same is true of every request in flight.
C5_RequestParams ==
    LET p == RequestParams(limit, selectedEventType, selectedEventSource)
    IN /\ DOMAIN p \subseteq {"limit", "event_type", "event_source"}
       /\ "limit" \in DOMAIN p /\ p["limit"] = Num(limit)
       /\ ("event_type" \in DOMAIN p) <=> (selectedEventType # "all")
       /\ ("event_type" \in DOMAIN p) => p["event_type"] = Str(selectedEventType)
       /\ ("event_source" \in DOMAIN p) <=> (selectedEventSource # "all")
       /\ ("event_source" \in DOMAIN p) => p["event_source"] = Str(selectedEventSource)
       /\ \A i \in DOMAIN inflight : \A k \in DOMAIN inflight[i] :
            inflight[i][k] \notin {Str("all"), Undefined}

\* a request for one type and every source is in flight
C5_Witness ==
    /\ selectedEventType = "media_added"
    /\ selectedEventSource = "all"
    /\ inflight = <<RequestParams(limit, "media_added", "all")>>

IsDigits(str) ==
    Len(str) > 0 /\ \A i \in 1..Len(str) : SubSeq(str, i, i) \in
        {"0", "1", "2", "3", "4", "5", "6", "7", "8", "9"}

IsKnownType(v) == IsStr(v) /\ v[2] \in EventType

\* C8, as stated: an unknown 'type' leaves the type filter unchanged and a
\* non-numeric 'media_id' leaves the search query unchanged; a known 'type' sets
\* the type filter and a numeric 'media_id' sets the search query.
C8_AsStated ==
    [][last'.op = "queryParams" =>
        LET type == last'.arg[1]
            mediaId == last'.arg[2]
        IN /\ selectedEventType' = IF IsKnownType(type) THEN type[2] ELSE selectedEventType
           /\ searchQuery' = IF IsStr(mediaId) /\ IsDigits(mediaId[2])
                             THEN mediaId[2] ELSE searchQuery]_vars

\* C8, amended: an unknown (or absent, or empty) 'type' leaves the type filter
\* unchanged and a known one sets it; EVERY non-empty 'media_id', numeric or not,
\* sets the search query, and only an absent or empty one leaves it unchanged.
C8_Seeding ==
    [][last'.op = "queryParams" =>
        LET type == last'.arg[1]
            mediaId == last'.arg[2]
        IN /\ selectedEventType' = IF IsKnownType(type) THEN type[2] ELSE selectedEventType
           /\ searchQuery' = IF IsStr(mediaId) /\ mediaId[2] # ""
                             THEN mediaId[2] ELSE searchQuery]_vars

\* seeded with an unknown type and a non-numeric media_id
C8_Witness ==
    /\ last = Op("queryParams", <<Str("bogus"), Str("abc")>>)
    /\ selectedEventType = "all"
    /\ searchQuery = "abc"

C10_LimitMonotone ==
    [][/\ limit' >= limit
       /\ limit' # limit =>
            last'.op = "loadMore" /\ limit' = limit + 500 /\ RLen(Raw) >= limit
       /\ last'.op = "loadMore" =>
            /\ displayCount' >= displayCount
            /\ ~(limit' # limit /\ displayCount' # displayCount)]_vars

\* a filter is changed after the limit was raised, and the limit stays raised
C10_Witness ==
    /\ limit = 1000
    /\ last.op = "selectEventType"
    /\ selectedEventType = "media_added"

----------------------------------------------------------------------------
(* EventsService.  An object is <<"obj", f>>, f a function from its keys to   *)
(* their values; a key set to undefined is a key of f whose value is         *)
(* Undefined.                                                                *)

Obj(f) == <<"obj", f>>
IsObj(v) == v[1] = "obj"

\* services/events.service.ts as it reads with filterParams
filterParams(params) ==
    IF ~IsObj(params) THEN Undefined
    ELSE LET kept == {k \in DOMAIN params[2] : params[2][k] # Undefined /\ params[2][k] # Null}
         IN Obj([k \in kept |-> params[2][k]])

\* services/events.service.ts as it reads without it: `params as Record<...>`
castParams(params) == params

eventsUrl == "events/"

ParamValues(key) ==
    CASE key = "limit" -> {Undefined, Null, Num(10)}
      [] key = "offset" -> {Undefined, Null, Num(0)}
      [] key = "event_type" -> {Undefined, Null, Str("media_added")}

\* every object over some of the keys, each present key undefined, null or set
ParamObjects(keys) ==
    {Undefined} \cup
    UNION {{Obj(f) : f \in {g \in [present -> UNION {ParamValues(k) : k \in keys}] :
                                \A k \in present : g[k] \in ParamValues(k)}}
           : present \in SUBSET keys}

EventParamKeys == {"limit", "offset", "event_type"}
PageParamKeys == {"limit", "offset"}
MediaIds == {1, 7}

\* what http.get is called with
Request(url, params) == <<[url |-> url, params |-> params]>>
Call(fn, params) == <<[fn |-> fn, params |-> params]>>

\* frontend/src/app/services/events.service.ts
getEvents(params) ==
    /\ svcCall' = Call("getEvents", params)
    /\ svcOut' = Request(eventsUrl, castParams(params))
    /\ UNCHANGED <<feedVars, descVars>>

getEventsByMediaId(mediaId, params) ==
    /\ svcCall' = Call("getEventsByMediaId", params)
    /\ svcOut' = Request(eventsUrl \o "media/" \o ToString(mediaId), castParams(params))
    /\ UNCHANGED <<feedVars, descVars>>

\* the same service, in the file that declares filterParams
getEventsFiltered(params) ==
    /\ svcCall' = Call("getEventsFiltered", params)
    /\ svcOut' = Request(eventsUrl, filterParams(params))
    /\ UNCHANGED <<feedVars, descVars>>

getEventsByMediaIdFiltered(mediaId, params) ==
    /\ svcCall' = Call("getEventsByMediaIdFiltered", params)
    /\ svcOut' = Request(eventsUrl \o "media/" \o ToString(mediaId), filterParams(params))
    /\ UNCHANGED <<feedVars, descVars>>

SvcNext ==
    \/ \E p \in ParamObjects(EventParamKeys) : getEvents(p)
    \/ \E m \in MediaIds, p \in ParamObjects(PageParamKeys) : getEventsByMediaId(m, p)
    \/ \E p \in ParamObjects(EventParamKeys) : getEventsFiltered(p)
    \/ \E m \in MediaIds, p \in ParamObjects(PageParamKeys) : getEventsByMediaIdFiltered(m, p)

SpecSvc == Init /\ [][SvcNext]_vars

\* the <<key, value>> pairs an object carries
Pairs(params) ==
    IF IsObj(params) THEN {<<k, params[2][k]>> : k \in DOMAIN params[2]} ELSE {}

\* C6: for every call of getEvents and getEventsByMediaId, the outgoing request
\* carries exactly the parameters whose value is neither undefined nor null,
\* with their values unchanged.
C6_OnlyPresentParams ==
    svcCall # <<>> =>
        Pairs(svcOut[1].params) =
            {pair \in Pairs(svcCall[1].params) : pair[2] # Undefined /\ pair[2] # Null}

\* the same, of the two calls of the service that declares filterParams alone
FilteredServiceOnlyPresentParams ==
    svcCall # <<>> /\ svcCall[1].fn \in {"getEventsFiltered", "getEventsByMediaIdFiltered"} =>
        Pairs(svcOut[1].params) =
            {pair \in Pairs(svcCall[1].params) : pair[2] # Undefined /\ pair[2] # Null}

----------------------------------------------------------------------------
(* Descriptions and icons *)

\* faulty variant: monitor changes are not special-cased
getEventDescriptionPlainMonitor(event) ==
    CASE event.event_type = "media_added" -> "Media was added to the library"
      [] event.event_type = "monitor_changed" ->
            "Monitor: " \o Template(event.old_value) \o " → " \o Template(event.new_value)
      [] event.event_type = "youtube_id_changed" ->
            IF ~Truthy(event.old_value) /\ Truthy(event.new_value)
            THEN "YouTube ID set to " \o Template(event.new_value)
            ELSE IF Truthy(event.old_value) /\ ~Truthy(event.new_value)
            THEN "YouTube ID cleared (was " \o Template(event.old_value) \o ")"
            ELSE "YouTube ID: " \o Template(Or(event.old_value, Str("none")))
                    \o " → " \o Template(Or(event.new_value, Str("none")))
      [] event.event_type = "trailer_detected" ->
            IF Truthy(event.new_value)
            THEN "Trailer detected: " \o Template(event.new_value)
            ELSE "Existing trailer detected"
      [] event.event_type = "trailer_downloaded" ->
            IF Truthy(event.new_value)
            THEN "Downloaded from " \o Template(event.new_value)
            ELSE "Trailer downloaded"
      [] event.event_type = "trailer_deleted" ->
            IF Truthy(event.new_value)
            THEN "Deleted: " \o Template(event.new_value)
            ELSE "Trailer deleted"
      [] event.event_type = "download_skipped" ->
            Template(Or(event.new_value, Str("Download was skipped")))
      [] OTHER -> ""

\* MediaEventsComponent.getEventDescription
getEventDescription(event) ==
    CASE event.event_type = "media_added" -> "Media was added to the library"
      [] event.event_type = "monitor_changed" ->
            IF event.old_value = Str("true") /\ event.new_value = Str("false")
            THEN "Monitoring disabled"
            ELSE IF event.old_value = Str("false") /\ event.new_value = Str("true")
            THEN "Monitoring enabled"
            ELSE "Monitor: " \o Template(event.old_value) \o " → " \o Template(event.new_value)
      [] event.event_type = "youtube_id_changed" ->
            IF ~Truthy(event.old_value) /\ Truthy(event.new_value)
            THEN "YouTube ID set to " \o Template(event.new_value)
            ELSE IF Truthy(event.old_value) /\ ~Truthy(event.new_value)
            THEN "YouTube ID cleared (was " \o Template(event.old_value) \o ")"
            ELSE "YouTube ID: " \o Template(Or(event.old_value, Str("none")))
                    \o " → " \o Template(Or(event.new_value, Str("none")))
      [] event.event_type = "trailer_detected" ->
            IF Truthy(event.new_value)
            THEN "Trailer detected: " \o Template(event.new_value)
            ELSE "Existing trailer detected"
      [] event.event_type = "trailer_downloaded" ->
            IF Truthy(event.new_value)
            THEN "Downloaded from " \o Template(event.new_value)
            ELSE "Trailer downloaded"
      [] event.event_type = "trailer_deleted" ->
            IF Truthy(event.new_value)
            THEN "Deleted: " \o Template(event.new_value)
            ELSE "Trailer deleted"
      [] event.event_type = "download_skipped" ->
            Template(Or(event.new_value, Str("Download was skipped")))
      [] OTHER -> ""

\* EventsComponent.getEventIcon
getEventIcon(eventType) ==
    CASE eventType = "media_added" -> "add_circle"
      [] eventType = "monitor_changed" -> "visibility"
      [] eventType = "youtube_id_changed" -> "link"
      [] eventType = "trailer_detected" -> "search"
      [] eventType = "trailer_downloaded" -> "download"
      [] eventType = "trailer_deleted" -> "delete"
      [] eventType = "download_skipped" -> "block"
      [] OTHER -> "info"

DescTypes == EventType \cup {"unknown_type"}
DescValues == {Null, Str(""), Str("true"), Str("false"), Str("xyz")}

\* the template renders one event of the per-media feed
describe(event) ==
    /\ descEvent' = <<event>>
    /\ descOut' = <<[description |-> getEventDescription(event),
                     icon |-> getEventIcon(event.event_type)]>>
    /\ UNCHANGED <<feedVars, svcVars>>

DescNext ==
    \E type \in DescTypes, old \in DescValues, new \in DescValues :
        describe(EventRead(1, type, "system", "API", old, new))

SpecDesc == Init /\ [][DescNext]_vars

Present(v) == v # Null /\ v # Str("")

\* the mapping table of the specification, row by row
TableDescription(type, old, new) ==
    CASE type = "media_added" -> "Added from " \o Template(new)
      [] type = "monitor_changed" ->
            CASE old = Str("true") /\ new = Str("false") -> "Monitoring disabled"
              [] old = Str("false") /\ new = Str("true") -> "Monitoring enabled"
              [] OTHER -> "Monitor: " \o Template(old) \o " → " \o Template(new)
      [] type = "youtube_id_changed" ->
            CASE ~Present(old) /\ Present(new) -> "YouTube ID set to " \o Template(new)
              [] Present(old) /\ ~Present(new) -> "YouTube ID cleared (was " \o Template(old) \o ")"
              [] OTHER -> "YouTube ID: " \o (IF Present(old) THEN Template(old) ELSE "none")
                            \o " → " \o (IF Present(new) THEN Template(new) ELSE "none")
      [] type = "trailer_detected" ->
            IF Present(new) THEN "Trailer detected: " \o Template(new)
            ELSE "Existing trailer detected"
      [] type = "trailer_downloaded" ->
            IF Present(new) THEN "Downloaded from " \o Template(new) ELSE "Trailer downloaded"
      [] type = "trailer_deleted" ->
            IF Present(new) THEN "Deleted: " \o Template(new) ELSE "Trailer deleted"
      [] type = "download_skipped" ->
            IF Present(new) THEN Template(new) ELSE "Download was skipped"
      [] OTHER -> ""

TableIcon ==
    [type \in DescTypes |->
        CASE type = "media_added" -> "add_circle"
          [] type = "monitor_changed" -> "visibility"
          [] type = "youtube_id_changed" -> "link"
          [] type = "trailer_detected" -> "search"
          [] type = "trailer_downloaded" -> "download"
          [] type = "trailer_deleted" -> "delete"
          [] type = "download_skipped" -> "block"
          [] OTHER -> "info"]

\* C7, as stated: for every event the per-media feed's description is the
\* sentence of the mapping table and the icon is the table's icon.
C7_AsStated ==
    descOut # <<>> =>
        LET e == descEvent[1]
        IN /\ descOut[1].description = TableDescription(e.event_type, e.old_value, e.new_value)
           /\ descOut[1].icon = TableIcon[e.event_type]

\* C7, amended: as stated for every type but media_added, whose description
\* in the per-media feed is "Media was added to the library" whatever new_value
\* is ("Added from {new_value}" is the sentence of the all-events page).
C7_Descriptions ==
    descOut # <<>> =>
        LET e == descEvent[1]
        IN /\ descOut[1].description =
                IF e.event_type = "media_added" THEN "Media was added to the library"
                ELSE TableDescription(e.event_type, e.old_value, e.new_value)
           /\ descOut[1].icon = TableIcon[e.event_type]

\* a YouTube id set where there was none
C7_Witness ==
    /\ descEvent = <<EventRead(1, "youtube_id_changed", "system", "API", Null, Str("xyz"))>>
    /\ descOut = <<[description |-> "YouTube ID set to xyz", icon |-> "link"]>>

====
